---- MODULE Spec2Model ----
(***************************************************************************)
(* Model of the stock analyzer: fundamental_analyzer.py (ticker            *)
(* normalisation, ratios, growth, currency formatting, the web analysis    *)
(* function) and the /api/analyze route of app.py.                         *)
(*                                                                         *)
(* One request is followed from its entry point to its return value or     *)
(* exception.  Every yfinance lookup is a Gateway call: the call is         *)
(* appended to the log `calls` and its answer is chosen nondeterministically*)
(* among the answers the provider can give.                                 *)
(*                                                                         *)
(* Python values: a ticker is a sequence of one-character strings; an       *)
(* optional value is None (<<>>) or Some(v) (<<v>>); a number is an exact    *)
(* fraction [n, d].                                                         *)
(***************************************************************************)
EXTENDS Integers, Sequences, FiniteSets, TLC

VARIABLES
    pc,            \* position of the request in the code
    entry,         \* the function the caller invoked
    arg,           \* the caller's argument (for api_analyze, the query parameter)
    raw_ticker,    \* parameter of analyze_stock_for_web / normalize_ticker
    input_ticker,  \* analyze_stock_for_web: local `input_ticker`
    symbol,        \* normalize_ticker: local `symbol`
    sfx_i,         \* normalize_ticker: index of the for loop over EXCHANGE_SUFFIXES
    norm_ticker,   \* Some(value returned by normalize_ticker), None before
    last_lookup,   \* answer of the most recent validation lookup
    calls,         \* log of the Gateway calls made by the request
    stock_info,    \* stock.info: the info dict the Ticker object holds
    balance_sheet, \* stock.balance_sheet: the answer of the lookup
    financials,    \* stock.financials: the answer of the lookup
    info,          \* local `info`: the dict get_basic_info built
    ratios,        \* local `ratios`
    growth_raw,    \* local `growth_raw`
    result,        \* the dict analyze_stock_for_web returned, or None
    error,         \* the exception that left the function called, or None
    response,      \* the HTTP response of api_analyze, or None
    fmt_x,         \* a formatter called on its own: argument `x`
    fmt_rate,      \* format_idr_with_usd called on its own: argument `usd_idr_rate`
    fmt_out,       \* the string the formatter returned, or the exception it raised
    users,         \* app.py: the rows of table `users`
    now,           \* app.py: datetime.utcnow()
    requests       \* app.py: the password-reset requests served, in order

vars == <<pc, entry, arg, raw_ticker, input_ticker, symbol, sfx_i, norm_ticker, last_lookup,
          calls, stock_info, balance_sheet, financials, info, ratios, growth_raw, result,
          error, response, fmt_x, fmt_rate, fmt_out, users, now, requests>>

\* the variables of the formatters called on their own, and of the accounts
formatting == <<fmt_x, fmt_rate, fmt_out>>
accounts == <<users, now, requests>>

----------------------------------------------------------------------------
(* Bounds of the model *)

\* longest raw ticker handed to normalize_ticker
MaxLen == 3

----------------------------------------------------------------------------
(* Python values *)

None == <<>>
Some(v) == <<v>>
Val(o) == o[1]

\* the outcome of a call is its value, None or Some(v), or the exception
\* that left it
Exception(name) == <<"exception", name>>
IsException(o) == Len(o) = 2

\* Python truthiness of an optional number: None and 0 are falsy (NaN, the
\* fraction 0/0, is not)
Truthy(o) == o # None /\ (Val(o).n # 0 \/ Val(o).d = 0)

\* Python `a or b`
PyOr(a, b) == IF Truthy(a) THEN a ELSE b

\* characters a raw ticker is made of: a lower-case letter, an upper-case
\* letter, whitespace and the dot
Chars == {"a", "B", " ", "."}

RECURSIVE StringsUpTo(_)
StringsUpTo(n) ==
    IF n = 0 THEN {<<>>}
    ELSE LET shorter == StringsUpTo(n - 1)
         IN  shorter \cup {Append(s, c) : s \in {t \in shorter : Len(t) = n - 1}, c \in Chars}

\* str.upper()
UpperChar(c) == IF c = "a" THEN "A" ELSE c
upper(s) == [i \in 1..Len(s) |-> UpperChar(s[i])]

\* str.strip(): leading and trailing whitespace removed
RECURSIVE lstrip(_)
lstrip(s) == IF s # <<>> /\ Head(s) = " " THEN lstrip(Tail(s)) ELSE s
RECURSIVE rstrip(_)
rstrip(s) == IF s # <<>> /\ s[Len(s)] = " " THEN rstrip(SubSeq(s, 1, Len(s) - 1)) ELSE s
\* faulty variant of strip: only leading whitespace is removed
strip_LeadingOnly(s) == lstrip(s)

strip(s) == rstrip(lstrip(s))

\* Python `"." in s`
HasDot(s) == \E i \in 1..Len(s) : s[i] = "."

----------------------------------------------------------------------------
(* Numbers and Python's fixed-point formatting                              *)
(*                                                                          *)
(* A number is an exact fraction [n |-> numerator, d |-> denominator > 0];  *)
(* with a field e it is n/d * 1000^e, which keeps amounts of the order of   *)
(* 1e12 within the integers; 0/0 is the float NaN.                          *)
(* The digits Python prints are computed from the integer part, split into  *)
(* groups of three decimal digits, and the remainder.  Values whose third   *)
(* decimal is an exact 5 (where the binary rounding error of the float      *)
(* decides the last digit) are not drawn by the model.                      *)

Abs(i) == IF i < 0 THEN -i ELSE i

RECURSIVE Gcd(_, _)
Gcd(a, b) == IF b = 0 THEN a ELSE Gcd(b, a % b)

\* the fraction n/d in lowest terms with a positive denominator
Frac(n, d) ==
    LET g == Gcd(Abs(n), Abs(d))
        s == IF d < 0 THEN -1 ELSE 1
    IN  [n |-> s * (n \div g), d |-> s * (d \div g)]

FromInt(i) == [n |-> i, d |-> 1]

NaN == [n |-> 0, d |-> 0]
IsNaN(q) == q.d = 0

\* the power of 1000 a number carries
E3(q) == IF "e" \in DOMAIN q THEN q.e ELSE 0

Scaled(n, d, e) == [n |-> n, d |-> d, e |-> e]

\* the same number with the least power of 1000 that leaves |n/d| >= 1
RECURSIVE Norm(_)
Norm(q) ==
    IF E3(q) > 0 /\ Abs(q.n) < q.d THEN Norm(Scaled(q.n * 1000, q.d, q.e - 1))
    ELSE Scaled(q.n, q.d, E3(q))

\* base-1000 digits of a natural number, most significant first
RECURSIVE Groups(_)
Groups(i) == IF i < 1000 THEN <<i>> ELSE Append(Groups(i \div 1000), i % 1000)

Pad2(i) == IF i < 10 THEN "0" \o ToString(i) ELSE ToString(i)

\* the first three decimals of r / d for 0 <= r < d, by long division, and
\* the remainder left below them
Decimals3(r, d) ==
    LET r1 == (r * 10) % d
        r2 == (r1 * 10) % d
    IN  [digits |-> ((r * 10) \div d) * 100 + ((r1 * 10) \div d) * 10 + (r2 * 10) \div d,
         rest   |-> (r2 * 10) % d]

\* whole units and thousandths rounded to hundredths, half to even; `below`
\* tells whether digits remain under the thousandths
Round2(whole, milli, below) ==
    LET cents == milli \div 10
        last  == milli % 10
        up    == last > 5 \/ (last = 5 /\ (below \/ cents % 2 = 1))
    IN  whole * 100 + cents + (IF up THEN 1 ELSE 0)

Digits2(total) == ToString(total \div 100) \o "." \o Pad2(total % 100)

\* q (a fraction, |q| the value shown) printed with two decimals after it is
\* divided by 1000^band: the digits of "{:.2f}"
Fixed2(q, band) ==
    LET r == Abs(q.n) % q.d
        G == Groups(Abs(q.n) \div q.d)
        L == Len(G)
        RECURSIVE IntOf(_)
        IntOf(k) == IF k = 0 THEN 0 ELSE IntOf(k - 1) * 1000 + G[k]
    IN  IF band = 0
        THEN Digits2(Round2(IntOf(L), Decimals3(r, q.d).digits, Decimals3(r, q.d).rest # 0))
        ELSE Digits2(Round2(IntOf(L - band), G[L - band + 1],
                            r # 0 \/ \E k \in (L - band + 2)..L : G[k] # 0))

\* the thousands separator of "{:,}" for a value below 1000 that rounds to it
Grouped(digits) ==
    CASE digits = "1000"    -> "1,000"
      [] digits = "1000.00" -> "1,000.00"
      [] OTHER              -> digits

\* faulty variant of Band: a threshold belongs to the band below it
Band_AboveThreshold(q) ==
    LET m == Norm(q)
        G == Groups(Abs(m.n) \div m.d)
        b == Len(G) - 1 + m.e
        onThreshold == /\ m.e = 0
                       /\ Abs(m.n) % m.d = 0
                       /\ Len(G) > 1
                       /\ G[1] = 1
                       /\ \A k \in 2..Len(G) : G[k] = 0
    IN  IF onThreshold THEN b - 1 ELSE IF b >= 4 THEN 4 ELSE b

\* the suffix band the short formatters choose: the largest of
\* 1e3 (1), 1e6 (2), 1e9 (3), 1e12 (4) that is <= |x|, 0 below 1e3
Band(q) ==
    LET m == Norm(q)
        b == Len(Groups(Abs(m.n) \div m.d)) - 1 + m.e
    IN  IF b >= 4 THEN 4 ELSE b

\* "{:.2f}" of x / 1000^band, for a band not below the power of 1000 that x
\* carries
Shown2(q, band) == LET m == Norm(q) IN Fixed2(m, band - m.e)

BandSuffix == <<"K", "M", "B", "T">>

\* "{:,.0f}" for |x| < 1000: the value is rounded to an integer
Fixed0(q) ==
    LET ip == Abs(q.n) \div q.d
        r  == Abs(q.n) % q.d
        up == 2 * r > q.d \/ (2 * r = q.d /\ ip % 2 = 1)
    IN  Grouped(ToString(ip + (IF up THEN 1 ELSE 0)))

\* "{:,.2f}" for |x| < 1000
Fixed2Grouped(q) == Grouped(Fixed2(q, 0))

\* str() of a Python number, as the f-string of the "other currency" branch
\* prints it
PyStr(o) == IF o = None THEN "None" ELSE ToString(Val(o).n)

----------------------------------------------------------------------------------------------------------------------------------------
(* fundamental_analyzer.py: the currency formatters.  The argument is       *)
(* None, Some(number) or Some([str |-> text]), a Python string.             *)

Text(t) == Some([str |-> t])
IsText(x) == x # None /\ "str" \in DOMAIN Val(x)

\* str.lower() on the texts the model draws
lower(t) == IF t = "NaN" THEN "nan" ELSE t

\* float(x): TypeError for None, ValueError for a string that is no number
float(x) ==
    IF x = None THEN Exception("TypeError")
    ELSE IF ~IsText(x) THEN x
    ELSE CASE Val(x).str = "1500" -> Some(FromInt(1500))
           [] Val(x).str = "NaN"  -> Some(NaN)
           [] OTHER               -> Exception("ValueError")

\* str(x).lower() == "nan"
IsNanStr(x) == IF IsText(x) THEN lower(Val(x).str) = "nan" ELSE IsNaN(Val(x))

\* lines 66-78, the try block of format_rp_short: thresholds on abs(x), the
\* sign printed with the number
rp_short_try(x) ==
    IF x = None THEN Some("Rp 0")
    ELSE IF IsNanStr(x) THEN Some("Rp 0")
    ELSE LET f == float(x)
         IN  IF IsException(f) THEN f
             ELSE LET q    == Val(f)
                      sign == IF q.n < 0 THEN "-" ELSE ""
                      b    == Band(q)
                  IN  IF b >= 1
                      THEN Some("Rp " \o sign \o Shown2(q, b) \o BandSuffix[b])
                      ELSE Some("Rp " \o sign \o Fixed0(q))

format_rp_short(x) ==
    LET t == rp_short_try(x)
    IN  IF IsException(t) THEN "Rp " \o Val(x).str           \* except: f"Rp {x}"
        ELSE Val(t)

\* faulty variant of usd_short_try: the thresholds are compared with x, not
\* with abs(x)
usd_short_try_SignedThresholds(x) ==
    IF x = None THEN Some("$0")
    ELSE IF IsNanStr(x) THEN Some("$0")
    ELSE LET f == float(x)
         IN  IF IsException(f) THEN f
             ELSE LET q    == Val(f)
                      sign == IF q.n < 0 THEN "-" ELSE ""
                      b    == IF q.n < 0 THEN 0 ELSE Band(q)
                  IN  IF b >= 1
                      THEN Some(sign \o "$" \o Shown2(q, b) \o BandSuffix[b])
                      ELSE Some(sign \o "$" \o Shown2(q, Norm(q).e))

\* lines 85-101, the try block of format_usd_short: the sign is taken off,
\* thresholds and digits are those of abs(x)
usd_short_try(x) ==
    IF x = None THEN Some("$0")
    ELSE IF IsNanStr(x) THEN Some("$0")
    ELSE LET f == float(x)
         IN  IF IsException(f) THEN f
             ELSE LET q    == Val(f)
                      sign == IF q.n < 0 THEN "-" ELSE ""
                      b    == Band(q)
                  IN  IF b >= 1
                      THEN Some(sign \o "$" \o Shown2(q, b) \o BandSuffix[b])
                      ELSE Some(sign \o "$" \o Fixed2Grouped(q))

format_usd_short(x) ==
    LET t == usd_short_try(x)
    IN  IF IsException(t) THEN "$0"                           \* except: "$0"
        ELSE Val(t)

\* Python `a / b` on floats: NaN spreads, a zero divisor raises
TrueDiv(a, b) ==
    IF IsNaN(a) \/ IsNaN(b) THEN Some(NaN)
    ELSE IF b.n = 0 THEN Exception("ZeroDivisionError")
    ELSE LET f == Frac(a.n * b.d, a.d * b.n)
         IN  Some(Scaled(f.n, f.d, E3(a) - E3(b)))

\* lines 115-118, the try block of format_idr_with_usd
idr_with_usd_try(idr_part, x, usd_idr_rate) ==
    LET f == float(x)
    IN  IF IsException(f) THEN f
        ELSE LET usd_value == TrueDiv(Val(f), Val(usd_idr_rate))
             IN  IF IsException(usd_value) THEN usd_value
                 ELSE Some(idr_part \o " (" \o format_usd_short(usd_value) \o ")")

\* faulty variant of format_idr_with_usd: an amount that cannot be converted
\* is shown as converted to zero
format_idr_with_usd_ZeroOnFailure(x, usd_idr_rate) ==
    LET idr_part == format_rp_short(x)
    IN  IF ~Truthy(usd_idr_rate) THEN idr_part
        ELSE LET t == idr_with_usd_try(idr_part, x, usd_idr_rate)
             IN  IF IsException(t) THEN idr_part \o " ($0)"
                 ELSE Val(t)

\* usd_idr_rate is None or Some(rate)
format_idr_with_usd(x, usd_idr_rate) ==
    LET idr_part == format_rp_short(x)
    IN  IF ~Truthy(usd_idr_rate) THEN idr_part                \* if not usd_idr_rate
        ELSE LET t == idr_with_usd_try(idr_part, x, usd_idr_rate)
             IN  IF IsException(t) THEN idr_part              \* except: idr_part
                 ELSE Val(t)

----------------------------------------------------------------------------
(* fundamental_analyzer.py: EXCHANGE_SUFFIXES *)

EXCHANGE_SUFFIXES == <<
    <<>>,
    <<".", "J", "K">>,
    <<".", "N", "S">>,
    <<".", "B", "O">>,
    <<".", "T", "O">>,
    <<".", "V">>,
    <<".", "L">>,
    <<".", "S", "I">>,
    <<".", "A", "X">>,
    <<".", "H", "K">>,
    <<".", "T">>,
    <<".", "K", "S">>,
    <<".", "K", "Q">>,
    <<".", "S", "S">>,
    <<".", "S", "Z">>,
    <<".", "T", "W">>,
    <<".", "N", "Z">>,
    <<".", "M", "X">> >>


----------------------------------------------------------------------------
(* The Gateway: the answers yfinance can give                               *)

\* most fields an info dict may lack at once (the empty dict is always drawn)
MaxAbsent == 2

Num(i) == Some(FromInt(i))

\* prices an info dict may carry in the validation lookup
PriceValues == {None, Num(0), Num(150)}

\* answers to stock.info in is_valid_ticker: the lookup raises, the provider
\* has no info (None), or an info dict with or without the two price fields
LookupAnswers ==
    {[kind |-> "raise"], [kind |-> "none"]}
    \cup {[kind |-> "info", currentPrice |-> c, regularMarketPrice |-> r] :
            c \in PriceValues, r \in PriceValues}

\* an info dict with every field the analyzer reads
FullInfo(c) ==
    [shortName          |-> Some("Acme"),
     longName           |-> Some("Acme Corp"),
     sector             |-> Some("Technology"),
     industry           |-> Some("Software"),
     currency           |-> Some(c),
     currentPrice       |-> Num(150),
     regularMarketPrice |-> Num(149),
     marketCap          |-> Num(1500000000),
     sharesOutstanding  |-> Num(10000000),
     trailingEps        |-> Num(5),
     bookValue          |-> Num(20),
     returnOnEquity     |-> Some(Frac(1, 4)),
     dividendYield      |-> Some(Frac(1, 50))]

Currencies == {"IDR", "USD", "EUR"}

InfoFields == DOMAIN FullInfo("USD")

\* dict.get of a missing key is None
Without(d, S) == [f \in DOMAIN d |-> IF f \in S THEN None ELSE d[f]]

AbsentSets == {S \in SUBSET InfoFields : Cardinality(S) <= MaxAbsent \/ S = InfoFields}

InfoDicts == {Without(FullInfo(c), S) : c \in Currencies, S \in AbsentSets}

\* answers to stock.info in get_basic_info
InfoAnswers ==
    {[kind |-> "raise"], [kind |-> "none"]}
    \cup {[kind |-> "info", dict |-> d] : d \in InfoDicts}

\* answers to stock.balance_sheet: the lookup raises, or a frame with
\* `columns` periods whose most recent column has or lacks the two line items
BalanceSheet(cols, debt, equity) ==
    [kind |-> "frame", columns |-> cols, TotalDebt |-> debt, TotalStockholderEquity |-> equity]

BalanceSheetAnswers ==
    {[kind |-> "raise"],
     BalanceSheet(0, None, None),
     BalanceSheet(4, None, None),
     BalanceSheet(4, Num(50), Num(100))}

\* answers to stock.financials: the lookup raises, or a frame without or with
\* a "Net Income" row, the row a sequence of <<period, value>> columns in the
\* provider's order
IncomeStatement(row) == [kind |-> "frame", NetIncome |-> row]

IncomeStatementAnswers ==
    {[kind |-> "raise"],
     IncomeStatement(None),
     IncomeStatement(Some(<< <<2023, FromInt(1200000)>> >>)),
     IncomeStatement(Some(<< <<2023, FromInt(1200000)>>, <<2022, FromInt(1000000)>> >>))}

\* answers to history("USDIDR=X"): the lookup raises, the frame is empty, or
\* the last close
FxAnswers == {[kind |-> "raise"], [kind |-> "empty"], [kind |-> "close", Close |-> FromInt(15820)]}

USDIDR == <<"U", "S", "D", "I", "D", "R", "=", "X">>

----------------------------------------------------------------------------
(* fundamental_analyzer.py: helpers and ratio/growth computations           *)

\* get_usd_idr_rate, applied to the answer of its history lookup
get_usd_idr_rate(answer) ==
    IF answer.kind = "close" THEN Some(answer.Close)
    ELSE None                                                 \* except Exception / empty

\* faulty variant of is_valid_ticker: no try/except around the lookup
is_valid_ticker_Unhandled(answer) ==
    IF answer.kind = "raise" THEN Exception("stock.info")
    ELSE IF answer.kind = "none" THEN Some(FALSE)
    ELSE Some(PyOr(answer.currentPrice, answer.regularMarketPrice) # None)

\* is_valid_ticker, applied to the answer of its lookup: Some(TRUE) or
\* Some(FALSE)
is_valid_ticker(answer) ==
    IF answer.kind = "raise" THEN Some(FALSE)                 \* except Exception
    ELSE IF answer.kind = "none" THEN Some(FALSE)             \* info or {}
    ELSE Some(PyOr(answer.currentPrice, answer.regularMarketPrice) # None)

\* faulty variant of get_basic_info: a failed lookup is replaced by an empty
\* info dict
get_basic_info_Swallowed(answer) ==
    LET d == IF answer.kind = "info" THEN answer.dict
             ELSE [f \in DOMAIN FullInfo("USD") |-> None]
    IN  Some([data  |-> [shortName         |-> d.shortName,
                         longName          |-> d.longName,
                         sector            |-> d.sector,
                         industry          |-> d.industry,
                         currency          |-> d.currency,
                         currentPrice      |-> PyOr(d.currentPrice, d.regularMarketPrice),
                         marketCap         |-> d.marketCap,
                         sharesOutstanding |-> d.sharesOutstanding],
              stock |-> d])

\* get_basic_info, applied to the answer of stock.info: the pair (data, stock),
\* stock holding the info dict.  The function has no handler: stock.info
\* raising, or being None (info.get then raises), leaves it as an exception.
get_basic_info(answer) ==
    IF answer.kind = "raise" THEN Exception("stock.info")
    ELSE IF answer.kind = "none" THEN Exception("AttributeError")
    ELSE LET d == answer.dict
         IN  Some([data  |-> [shortName         |-> d.shortName,
                              longName          |-> d.longName,
                              sector            |-> d.sector,
                              industry          |-> d.industry,
                              currency          |-> d.currency,
                              currentPrice      |-> PyOr(d.currentPrice, d.regularMarketPrice),
                              marketCap         |-> d.marketCap,
                              sharesOutstanding |-> d.sharesOutstanding],
                   stock |-> d])

\* Python `x / y` on numbers
Divide(x, y) ==
    IF y.n = 0 THEN Exception("ZeroDivisionError")
    ELSE Some(Frac(x.n * y.d, x.d * y.n))

\* faulty variant of safe_div: `if not x` instead of `if x is None`
safe_div_FalsyNumerator(x, y) ==
    IF ~Truthy(x) \/ y = None \/ Val(y).n = 0 THEN None
    ELSE Divide(Val(x), Val(y))

safe_div(x, y) ==
    IF x = None \/ y = None \/ Val(y).n = 0 THEN None
    ELSE LET r == Divide(Val(x), Val(y))
         IN  IF IsException(r) THEN None ELSE r               \* except Exception

\* Python `v * 100` on a number
Scale100(v) == Some(Frac(v.n * 100, v.d))

\* faulty variant of Times100: `v * 100` without the None guard
Times100_Unguarded(v) == IF v = None THEN Exception("TypeError") ELSE Scale100(Val(v))

\* `v * 100 if v is not None else None`
Times100(v) == IF v # None THEN Scale100(Val(v)) ELSE None

\* faulty variant of balance_sheet_DER: no try/except around the balance sheet
balance_sheet_DER_Unhandled(bs) ==
    IF bs.kind = "raise" THEN Exception("stock.balance_sheet")
    ELSE IF bs.columns = 0 THEN Exception("IndexError")
    ELSE safe_div(bs.TotalDebt, bs.TotalStockholderEquity)

\* the try block of compute_ratios that reads the balance sheet
balance_sheet_DER(bs) ==
    IF bs.kind = "raise" THEN None                            \* except Exception
    ELSE IF bs.columns = 0 THEN None                          \* bs.columns[0] raises
    ELSE safe_div(bs.TotalDebt, bs.TotalStockholderEquity)

RatioNames == {"PER", "PBV", "ROE", "DER", "DividendYield"}

\* compute_ratios(info, stock), with the answer of stock.balance_sheet: the
\* dict of the five ratios, or the exception a ratio's computation raised
compute_ratios(data, quote, bs) ==
    LET r == [PER           |-> safe_div(data.currentPrice, quote.trailingEps),
              PBV           |-> safe_div(data.currentPrice, quote.bookValue),
              ROE           |-> Times100(quote.returnOnEquity),
              DER           |-> balance_sheet_DER(bs),
              DividendYield |-> Times100(quote.dividendYield)]
    IN  IF \E k \in RatioNames : IsException(r[k])
        THEN r[CHOOSE k \in RatioNames : IsException(r[k])]
        ELSE Some(r)

\* faulty variant of sort_index: the columns stay in the provider's order
sort_index_ProviderOrder(row) == row

\* Series.sort_index(): the columns in ascending order of period
RECURSIVE sort_index(_)
sort_index(row) ==
    IF row = <<>> THEN <<>>
    ELSE LET least == CHOOSE i \in 1..Len(row) : \A j \in 1..Len(row) : row[i][1] <= row[j][1]
             rest  == [k \in 1..(Len(row) - 1) |-> IF k < least THEN row[k] ELSE row[k + 1]]
         IN  <<row[least]>> \o sort_index(rest)

\* faulty variant of growth_try: nothing is returned for fewer than two periods
growth_try_NeedsTwo(fin) ==
    IF fin.kind = "raise" THEN Exception("stock.financials")
    ELSE IF fin.NetIncome = None THEN None
    ELSE IF Len(Val(fin.NetIncome)) < 2 THEN None
    ELSE LET ni == Val(fin.NetIncome)
         IN  Some([NetIncomeValues |-> ni,
                   NetIncomeCAGR   |-> Some([first |-> ni[1][2], last |-> ni[Len(ni)][2],
                                             years |-> Len(ni) - 1])])

\* the try block of get_growth, applied to the answer of stock.financials.
\* The CAGR ((last / first) ** (1 / years) - 1) * 100 is kept as its three
\* operands.
growth_try(fin) ==
    IF fin.kind = "raise" THEN Exception("stock.financials")
    ELSE IF fin.NetIncome = None THEN None                    \* "Net Income" not in fin.index
    ELSE LET ni    == sort_index(Val(fin.NetIncome))
             first == ni[1][2]
             last  == ni[Len(ni)][2]
             years == Len(ni) - 1
             cagr  == IF Len(ni) >= 2
                      THEN IF first.n # 0
                           THEN Some([first |-> first, last |-> last, years |-> years])
                           ELSE None
                      ELSE None
         IN  Some([NetIncomeValues |-> ni, NetIncomeCAGR |-> cagr])

get_growth(fin) ==
    LET g == growth_try(fin)
    IN  IF IsException(g) THEN None ELSE g                    \* except Exception

----------------------------------------------------------------------------
(* fundamental_analyzer.py: analyze_stock_for_web, the formatting part      *)

CurrStr(curr) == IF curr = None THEN "None" ELSE Val(curr)

\* lines 367-378: price, market cap and shares by currency
format_info_value(curr, x, usd_rate) ==
    IF curr = Some("IDR") THEN format_idr_with_usd(x, usd_rate)
    ELSE IF curr = Some("USD") THEN format_usd_short(x)
    ELSE PyStr(x) \o " " \o CurrStr(curr)

\* faulty variant of format_growth_value: growth values are always shown in
\* dollars
format_growth_value_AlwaysUsd(curr, val, usd_rate) == format_usd_short(Some(val))

\* lines 404-409: one net-income value by currency
format_growth_value(curr, val, usd_rate) ==
    IF curr = Some("IDR") THEN format_idr_with_usd(Some(val), usd_rate)
    ELSE IF curr = Some("USD") THEN format_usd_short(Some(val))
    ELSE PyStr(Some(val)) \o " " \o CurrStr(curr)

\* fmt2: "{x:.2f}" or None
fmt2(x) ==
    IF x = None THEN None
    ELSE Some((IF Val(x).n < 0 THEN "-" ELSE "") \o Fixed2(Val(x), 0))

\* NetIncomeCAGR as a number, for the series of two periods the requests of
\* the model draw: (last / first) ** (1 / 1) - 1, times 100
CagrPercent(c) ==
    CASE c.years = 1 ->
        Frac((c.last.n * c.first.d - c.first.n * c.last.d) * 100, c.first.n * c.last.d)

RatioStrNames == {"PER_str", "PBV_str", "ROE_str", "DER_str", "DividendYield_str"}

\* lines 363-434: the result dict, or the exception a formatting step raised
build_result(input, used, data, rs, growth, usd_rate) ==
    LET curr == data.currency
        ni   == IF growth = None THEN <<>> ELSE Val(growth).NetIncomeValues
        strs == [PER_str           |-> fmt2(rs.PER),
                 PBV_str           |-> fmt2(rs.PBV),
                 ROE_str           |-> fmt2(rs.ROE),
                 DER_str           |-> fmt2(rs.DER),
                 DividendYield_str |-> fmt2(rs.DividendYield)]
        r == [input_ticker    |-> input,
              used_ticker     |-> used,
              name            |-> IF data.longName # None THEN data.longName ELSE data.shortName,
              sector          |-> data.sector,
              industry        |-> data.industry,
              currency        |-> curr,
              price_str       |-> format_info_value(curr, data.currentPrice, usd_rate),
              market_cap_str  |-> format_info_value(curr, data.marketCap, usd_rate),
              shares_out_str  |-> format_info_value(curr, data.sharesOutstanding, usd_rate),
              ratios          |-> [PER               |-> rs.PER,
                                   PER_str           |-> strs.PER_str,
                                   PBV               |-> rs.PBV,
                                   PBV_str           |-> strs.PBV_str,
                                   ROE               |-> rs.ROE,
                                   ROE_str           |-> strs.ROE_str,
                                   DER               |-> rs.DER,
                                   DER_str           |-> strs.DER_str,
                                   DividendYield     |-> rs.DividendYield,
                                   DividendYield_str |-> strs.DividendYield_str],
              growth_list     |-> [k \in 1..Len(ni) |->
                                     [period    |-> ToString(ni[k][1]),
                                      value_str |-> format_growth_value(curr, ni[k][2], usd_rate)]],
              growth_cagr_str |-> IF growth # None /\ Val(growth).NetIncomeCAGR # None
                                  THEN fmt2(Some(CagrPercent(Val(Val(growth).NetIncomeCAGR))))
                                  ELSE None]
    IN  IF \E k \in RatioStrNames : IsException(strs[k])
        THEN strs[CHOOSE k \in RatioStrNames : IsException(strs[k])]
        ELSE Some(r)


----------------------------------------------------------------------------
(* Initial state: a caller invokes one of the entry points *)

NoLookup == [kind |-> "not_called"]

\* raw tickers handed to analyze_stock_for_web and to /api/analyze: empty,
\* blank, a bare symbol to strip and upper-case, a dotted symbol
AnalyzeTickers == {<<>>, <<" ">>, <<" ", "a">>, <<"a", ".", "B">>}

\* nothing looked up or computed yet
Fresh ==
    /\ input_ticker = <<>>
    /\ symbol = <<>>
    /\ sfx_i = 0
    /\ norm_ticker = None
    /\ last_lookup = NoLookup
    /\ calls = <<>>
    /\ balance_sheet = None
    /\ financials = None
    /\ ratios = None
    /\ growth_raw = None
    /\ result = None
    /\ error = None
    /\ response = None

\* no formatter is called on its own
NoFormatting ==
    /\ fmt_x = None
    /\ fmt_rate = None
    /\ fmt_out = None

\* no account request is served
NoAccounts ==
    /\ users = <<>>
    /\ now = 0
    /\ requests = <<>>

Init ==
    /\ \/ /\ entry = "normalize_ticker"
          /\ arg \in StringsUpTo(MaxLen)
          /\ raw_ticker = arg
       \/ /\ entry = "analyze_stock_for_web"
          /\ arg \in AnalyzeTickers
          /\ raw_ticker = arg
       \/ /\ entry = "api_analyze"
          /\ arg \in AnalyzeTickers
          /\ raw_ticker = <<>>
    /\ pc = entry
    /\ stock_info = None
    /\ info = None
    /\ Fresh
    /\ NoFormatting
    /\ NoAccounts

----------------------------------------------------------------------------
(* app.py: api_analyze *)

\* the except clause of api_analyze
FailedResponse == [status |-> 500, error |-> "failed to analyze"]

\* an exception leaves the function called; api_analyze catches it
Raise(e) ==
    /\ error' = Some(e)
    /\ pc' = "done"
    /\ response' = IF entry = "api_analyze" THEN Some(FailedResponse) ELSE None

\* lines 597-600: the query parameter is stripped; an empty one is a 400
ApiAnalyze ==
    /\ pc = "api_analyze"
    /\ LET ticker == strip(arg)
       IN  IF ticker = <<>>
           THEN /\ response' = Some([status |-> 400, error |-> "ticker parameter is required"])
                /\ pc' = "done"
                /\ UNCHANGED raw_ticker
           ELSE /\ raw_ticker' = ticker
                /\ pc' = "analyze_stock_for_web"
                /\ UNCHANGED response
    /\ UNCHANGED <<entry, arg, input_ticker, symbol, sfx_i, norm_ticker, last_lookup, calls,
                   stock_info, balance_sheet, financials, info, ratios, growth_raw, result,
                   error>>
    /\ UNCHANGED <<formatting, accounts>>

----------------------------------------------------------------------------
(* analyze_stock_for_web, lines 353-357 *)

AnalyzeEnter ==
    /\ pc = "analyze_stock_for_web"
    /\ IF raw_ticker = <<>>                                   \* if not raw_ticker
       THEN Raise("ValueError: Ticker kosong") /\ UNCHANGED input_ticker
       ELSE /\ input_ticker' = upper(strip(raw_ticker))
            /\ pc' = "normalize_ticker"
            /\ UNCHANGED <<error, response>>
    /\ UNCHANGED <<entry, arg, raw_ticker, symbol, sfx_i, norm_ticker, last_lookup, calls,
                   stock_info, balance_sheet, financials, info, ratios, growth_raw, result>>
    /\ UNCHANGED <<formatting, accounts>>

----------------------------------------------------------------------------
(* normalize_ticker *)

\* normalize_ticker returns t; its caller goes on
ReturnNormalized(t) ==
    /\ norm_ticker' = Some(t)
    /\ pc' = IF entry = "normalize_ticker" THEN "done" ELSE "get_basic_info"

\* lines 313-318: strip and upper-case; empty and dotted symbols return at once
NormalizeEnter ==
    /\ pc = "normalize_ticker"
    /\ LET s == upper(strip(IF entry = "normalize_ticker" THEN raw_ticker ELSE input_ticker))
       IN  /\ symbol' = s
           /\ IF s = <<>> \/ HasDot(s)
              THEN ReturnNormalized(s)
              ELSE /\ pc' = "validate_bare"
                   /\ UNCHANGED norm_ticker
    /\ UNCHANGED <<entry, arg, raw_ticker, input_ticker, sfx_i, last_lookup, calls,
                   stock_info, balance_sheet, financials, info, ratios, growth_raw, result,
                   error, response>>
    /\ UNCHANGED <<formatting, accounts>>

\* one validation lookup: the Gateway call is logged with its verdict
Validated(ticker, answer, verdict) ==
    /\ last_lookup' = answer
    /\ calls' = Append(calls, [by     |-> "is_valid_ticker",
                               ticker |-> ticker,
                               valid  |-> ~IsException(verdict) /\ Val(verdict)])

\* lines 320-321: the bare symbol is validated first
ValidateBare ==
    /\ pc = "validate_bare"
    /\ \E answer \in LookupAnswers :
        LET verdict == is_valid_ticker(answer)
        IN  /\ Validated(symbol, answer, verdict)
            /\ IF IsException(verdict)                        \* no handler in normalize_ticker
               THEN Raise(verdict[2]) /\ UNCHANGED <<sfx_i, norm_ticker>>
               ELSE IF Val(verdict)
               THEN ReturnNormalized(symbol) /\ UNCHANGED <<sfx_i, error, response>>
               ELSE /\ pc' = "suffix_loop"
                    /\ sfx_i' = 1
                    /\ UNCHANGED <<norm_ticker, error, response>>
    /\ UNCHANGED <<entry, arg, raw_ticker, input_ticker, symbol,
                   stock_info, balance_sheet, financials, info, ratios, growth_raw, result>>
    /\ UNCHANGED <<formatting, accounts>>

\* lines 323-325: the empty suffix is skipped without a lookup
SkipEmptySuffix ==
    /\ pc = "suffix_loop"
    /\ sfx_i <= Len(EXCHANGE_SUFFIXES)
    /\ EXCHANGE_SUFFIXES[sfx_i] = <<>>
    /\ sfx_i' = sfx_i + 1
    /\ UNCHANGED <<pc, entry, arg, raw_ticker, input_ticker, symbol, norm_ticker, last_lookup,
                   calls, stock_info, balance_sheet, financials, info, ratios, growth_raw,
                   result, error, response>>
    /\ UNCHANGED <<formatting, accounts>>

\* faulty variant of ValidateSuffix: a valid candidate is remembered and the
\* loop goes on
ValidateSuffix_NoReturn ==
    /\ pc = "suffix_loop"
    /\ sfx_i <= Len(EXCHANGE_SUFFIXES)
    /\ EXCHANGE_SUFFIXES[sfx_i] # <<>>
    /\ LET candidate == symbol \o EXCHANGE_SUFFIXES[sfx_i]
       IN  \E answer \in LookupAnswers :
            LET verdict == is_valid_ticker(answer)
            IN  /\ Validated(candidate, answer, verdict)
                /\ sfx_i' = sfx_i + 1
                /\ UNCHANGED <<pc, norm_ticker, error, response>>
    /\ UNCHANGED <<entry, arg, raw_ticker, input_ticker, symbol,
                   stock_info, balance_sheet, financials, info, ratios, growth_raw, result>>
    /\ UNCHANGED <<formatting, accounts>>

\* lines 326-328: symbol + suffix is validated; the first valid one is returned
ValidateSuffix ==
    /\ pc = "suffix_loop"
    /\ sfx_i <= Len(EXCHANGE_SUFFIXES)
    /\ EXCHANGE_SUFFIXES[sfx_i] # <<>>
    /\ LET candidate == symbol \o EXCHANGE_SUFFIXES[sfx_i]
       IN  \E answer \in LookupAnswers :
            LET verdict == is_valid_ticker(answer)
            IN  /\ Validated(candidate, answer, verdict)
                /\ IF IsException(verdict)                    \* no handler in normalize_ticker
                   THEN Raise(verdict[2]) /\ UNCHANGED <<sfx_i, norm_ticker>>
                   ELSE IF Val(verdict)
                   THEN ReturnNormalized(candidate) /\ UNCHANGED <<sfx_i, error, response>>
                   ELSE /\ sfx_i' = sfx_i + 1
                        /\ UNCHANGED <<pc, norm_ticker, error, response>>
    /\ UNCHANGED <<entry, arg, raw_ticker, input_ticker, symbol,
                   stock_info, balance_sheet, financials, info, ratios, growth_raw, result>>
    /\ UNCHANGED <<formatting, accounts>>

\* faulty variant of SuffixesExhausted: the last candidate is returned
SuffixesExhausted_LastCandidate ==
    /\ pc = "suffix_loop"
    /\ sfx_i > Len(EXCHANGE_SUFFIXES)
    /\ ReturnNormalized(symbol \o EXCHANGE_SUFFIXES[Len(EXCHANGE_SUFFIXES)])
    /\ UNCHANGED <<entry, arg, raw_ticker, input_ticker, symbol, sfx_i, last_lookup, calls,
                   stock_info, balance_sheet, financials, info, ratios, growth_raw, result,
                   error, response>>
    /\ UNCHANGED <<formatting, accounts>>

\* line 330: no candidate validated
SuffixesExhausted ==
    /\ pc = "suffix_loop"
    /\ sfx_i > Len(EXCHANGE_SUFFIXES)
    /\ ReturnNormalized(symbol)
    /\ UNCHANGED <<entry, arg, raw_ticker, input_ticker, symbol, sfx_i, last_lookup, calls,
                   stock_info, balance_sheet, financials, info, ratios, growth_raw, result,
                   error, response>>
    /\ UNCHANGED <<formatting, accounts>>

----------------------------------------------------------------------------
(* analyze_stock_for_web, lines 359-436; compute_ratios and get_growth are  *)
(* also entered directly, on inputs of their own                            *)

\* largest integer drawn as a price, per-share value or balance-sheet item
\* when compute_ratios is the entry point (the least is -1)
MaxOperand == 2

\* most reporting periods of an income statement when get_growth is the
\* entry point
MaxPeriods == 3

RatioOperands == {None} \cup {Num(i) : i \in -1..MaxOperand}

RatioFractions == {None, Num(0), Some(Frac(1, 4)), Some(Frac(-1, 50))}

RatioBalanceSheets ==
    {[kind |-> "raise"], BalanceSheet(0, None, None)}
    \cup {BalanceSheet(1, debt, equity) : debt \in RatioOperands, equity \in RatioOperands}

GrowthValues == {FromInt(-100), FromInt(0), FromInt(100), FromInt(121)}

GrowthPeriods == 2021..(2020 + MaxPeriods)

\* rows of at most n columns over distinct periods, in any order
RECURSIVE RowsUpTo(_)
RowsUpTo(n) ==
    IF n = 0 THEN {<<>>}
    ELSE LET shorter == RowsUpTo(n - 1)
         IN  shorter \cup
             {Append(row, <<p, v>>) :
                 row \in {r \in shorter : Len(r) = n - 1},
                 p \in GrowthPeriods, v \in GrowthValues}

DistinctPeriods(row) == \A i, j \in 1..Len(row) : i # j => row[i][1] # row[j][1]

GrowthStatements ==
    {[kind |-> "raise"], IncomeStatement(None)}
    \cup {IncomeStatement(Some(row)) : row \in {r \in RowsUpTo(MaxPeriods) : DistinctPeriods(r)}}

\* the symbol of the Ticker object the statements are read from
StockTicker == IF norm_ticker = None THEN <<>> ELSE Val(norm_ticker)

Logged(by, ticker, answer) ==
    calls' = Append(calls, [by |-> by, ticker |-> ticker, raised |-> answer.kind = "raise"])

\* analyze_stock_for_web returns r
Return(r) ==
    /\ result' = Some(r)
    /\ pc' = "done"
    /\ response' = IF entry = "api_analyze" THEN Some([status |-> 200, data |-> r]) ELSE None

\* line 359: info, stock = get_basic_info(norm_ticker)
GetBasicInfo ==
    /\ pc = "get_basic_info"
    /\ \E answer \in InfoAnswers :
        LET got == get_basic_info(answer)
        IN  /\ Logged("get_basic_info", Val(norm_ticker), answer)
            /\ IF IsException(got)                            \* no handler
               THEN Raise(got[2]) /\ UNCHANGED <<stock_info, info>>
               ELSE /\ stock_info' = Some(Val(got).stock)
                    /\ info' = Some(Val(got).data)
                    /\ pc' = "compute_ratios"
                    /\ UNCHANGED <<error, response>>
    /\ last_lookup' = NoLookup
    /\ UNCHANGED <<entry, arg, raw_ticker, input_ticker, symbol, sfx_i, norm_ticker,
                   balance_sheet, financials, ratios, growth_raw, result>>
    /\ UNCHANGED <<formatting, accounts>>

\* line 360: ratios = compute_ratios(info, stock); stock.info is the dict the
\* Ticker object already holds, stock.balance_sheet is a new lookup
ComputeRatios ==
    /\ pc = "compute_ratios"
    /\ \E answer \in (IF entry = "compute_ratios" THEN RatioBalanceSheets
                      ELSE BalanceSheetAnswers) :
        LET got == compute_ratios(Val(info), Val(stock_info), answer)
        IN  /\ Logged("balance_sheet", StockTicker, answer)
            /\ balance_sheet' = Some(answer)
            /\ IF IsException(got)                            \* no handler
               THEN Raise(got[2]) /\ UNCHANGED ratios
               ELSE /\ ratios' = got
                    /\ pc' = IF entry = "compute_ratios" THEN "done" ELSE "get_growth"
                    /\ UNCHANGED <<error, response>>
    /\ UNCHANGED <<entry, arg, raw_ticker, input_ticker, symbol, sfx_i, norm_ticker,
                   last_lookup, stock_info, financials, info, growth_raw, result>>
    /\ UNCHANGED <<formatting, accounts>>

\* line 361: growth_raw = get_growth(stock); stock.financials is a new lookup
GetGrowth ==
    /\ pc = "get_growth"
    /\ \E answer \in (IF entry = "get_growth" THEN GrowthStatements
                      ELSE IncomeStatementAnswers) :
        LET got == get_growth(answer)
        IN  /\ Logged("financials", StockTicker, answer)
            /\ financials' = Some(answer)
            /\ IF IsException(got)                            \* no handler
               THEN Raise(got[2]) /\ UNCHANGED growth_raw
               ELSE /\ growth_raw' = got
                    /\ pc' = IF entry = "get_growth" THEN "done" ELSE "format"
                    /\ UNCHANGED <<error, response>>
    /\ UNCHANGED <<entry, arg, raw_ticker, input_ticker, symbol, sfx_i, norm_ticker,
                   last_lookup, stock_info, balance_sheet, info, ratios, result>>
    /\ UNCHANGED <<formatting, accounts>>

\* the result dict is built and returned, or building it raised
Finish(got) ==
    IF IsException(got)
    THEN Raise(got[2]) /\ UNCHANGED result
    ELSE Return(Val(got)) /\ UNCHANGED error

\* lines 363-436 for an instrument in IDR: the FX rate is looked up once
FormatIdr ==
    /\ pc = "format"
    /\ Val(info).currency = Some("IDR")
    /\ \E answer \in FxAnswers :
        /\ Logged("get_usd_idr_rate", USDIDR, answer)
        /\ Finish(build_result(input_ticker, Val(norm_ticker), Val(info), Val(ratios),
                               growth_raw, get_usd_idr_rate(answer)))
    /\ UNCHANGED <<entry, arg, raw_ticker, input_ticker, symbol, sfx_i, norm_ticker,
                   last_lookup, stock_info, balance_sheet, financials, info, ratios,
                   growth_raw>>
    /\ UNCHANGED <<formatting, accounts>>

\* lines 363-436 for any other currency: usd_rate is None, no lookup
FormatOther ==
    /\ pc = "format"
    /\ Val(info).currency # Some("IDR")
    /\ Finish(build_result(input_ticker, Val(norm_ticker), Val(info), Val(ratios),
                           growth_raw, None))
    /\ UNCHANGED <<entry, arg, raw_ticker, input_ticker, symbol, sfx_i, norm_ticker,
                   last_lookup, calls, stock_info, balance_sheet, financials, info, ratios,
                   growth_raw>>
    /\ UNCHANGED <<formatting, accounts>>

----------------------------------------------------------------------------
(* The requests: normalize_ticker, analyze_stock_for_web and /api/analyze *)

Next ==
    \/ ApiAnalyze
    \/ AnalyzeEnter
    \/ NormalizeEnter
    \/ ValidateBare
    \/ SkipEmptySuffix
    \/ ValidateSuffix
    \/ SuffixesExhausted
    \/ GetBasicInfo
    \/ ComputeRatios
    \/ GetGrowth
    \/ FormatIdr
    \/ FormatOther

Spec == Init /\ [][Next]_vars

----------------------------------------------------------------------------
(* compute_ratios(info, stock) on every combination of its inputs *)

InitRatios ==
    /\ entry = "compute_ratios"
    /\ pc = entry
    /\ arg = <<>>
    /\ raw_ticker = <<>>
    /\ \E price \in RatioOperands :
        info = Some([get_basic_info([kind |-> "info", dict |-> FullInfo("USD")])[1].data
                        EXCEPT !.currentPrice = price])
    /\ \E eps \in RatioOperands, bv \in RatioOperands,
          roe \in RatioFractions, dy \in RatioFractions :
        stock_info = Some([FullInfo("USD") EXCEPT !.trailingEps = eps, !.bookValue = bv,
                                                  !.returnOnEquity = roe, !.dividendYield = dy])
    /\ Fresh
    /\ NoFormatting
    /\ NoAccounts

NextRatios == ComputeRatios

SpecRatios == InitRatios /\ [][NextRatios]_vars

----------------------------------------------------------------------------
(* get_growth(stock) on every income statement *)

InitGrowth ==
    /\ entry = "get_growth"
    /\ pc = entry
    /\ arg = <<>>
    /\ raw_ticker = <<>>
    /\ stock_info = None
    /\ info = None
    /\ Fresh
    /\ NoFormatting
    /\ NoAccounts

NextGrowth == GetGrowth

SpecGrowth == InitGrowth /\ [][NextGrowth]_vars

----------------------------------------------------------------------------
(* The currency formatters called on their own *)

\* amounts handed to a formatter: zero, amounts below 1e3, each threshold,
\* amounts inside each band and just below a threshold, and their negatives
FormatMagnitudes ==
    {FromInt(0), Frac(1, 3), Frac(33, 100), FromInt(150), FromInt(999), Frac(4998, 5),
     Frac(999999, 1000), FromInt(1000), FromInt(1234), FromInt(999999),
     Frac(999999999, 1000), FromInt(1000000), FromInt(1500000),
     Scaled(1, 1, 3), Scaled(5, 2, 3), Scaled(999999, 1000, 3),
     Scaled(1, 1, 4), Scaled(3, 2, 4), Scaled(1500, 1, 4)}

Negated(q) == [q EXCEPT !.n = -q.n]

FormatNumbers == FormatMagnitudes \cup {Negated(q) : q \in FormatMagnitudes \ {FromInt(0)}}

\* strings handed to a formatter: no number, the text of NaN, a number
FormatTexts == {"abc", "NaN", "1500"}

FormatInputs ==
    {None, Some(NaN)} \cup {Some(q) : q \in FormatNumbers} \cup {Text(t) : t \in FormatTexts}

\* rates handed to format_idr_with_usd: what get_usd_idr_rate returns, and zero
FormatRates == {None, Num(0), Num(2), Num(15820)}

InitFormat ==
    /\ entry \in {"format_rp_short", "format_usd_short", "format_idr_with_usd"}
    /\ pc = entry
    /\ arg = <<>>
    /\ raw_ticker = <<>>
    /\ stock_info = None
    /\ info = None
    /\ Fresh
    /\ NoAccounts
    /\ fmt_x \in FormatInputs
    /\ fmt_rate \in (IF entry = "format_idr_with_usd" THEN FormatRates ELSE {None})
    /\ fmt_out = None

\* the formatter returns the string s
Formatted(s) ==
    /\ fmt_out' = Some(s)
    /\ pc' = "done"
    /\ UNCHANGED <<entry, arg, raw_ticker, input_ticker, symbol, sfx_i, norm_ticker,
                   last_lookup, calls, stock_info, balance_sheet, financials, info, ratios,
                   growth_raw, result, error, response, fmt_x, fmt_rate, accounts>>

FormatRpShort ==
    /\ pc = "format_rp_short"
    /\ Formatted(format_rp_short(fmt_x))

FormatUsdShort ==
    /\ pc = "format_usd_short"
    /\ Formatted(format_usd_short(fmt_x))

FormatIdrWithUsd ==
    /\ pc = "format_idr_with_usd"
    /\ Formatted(format_idr_with_usd(fmt_x, fmt_rate))

NextFormat ==
    \/ FormatRpShort
    \/ FormatUsdShort
    \/ FormatIdrWithUsd

SpecFormat == InitFormat /\ [][NextFormat]_vars

----------------------------------------------------------------------------
(* Properties.  What a property expects of a ticker is stated on its        *)
(* characters, apart from the operators of the model.                       *)

\* the argument normalize_ticker was called with
NormalizeArg == IF entry = "normalize_ticker" THEN raw_ticker ELSE input_ticker

\* the validation lookups of the call log, in order
Validations == SelectSeq(calls, LAMBDA c : c.by = "is_valid_ticker")

ContainsDot(s) == \E k \in 1..Len(s) : s[k] = "."

AllBlank(s) == \A k \in 1..Len(s) : s[k] = " "

\* u is the upper-case form of the character c
UpperOf(c, u) == IF c = "a" THEN u = "A" ELSE u = c

\* t is s without its leading and trailing whitespace, in upper case
TrimUpperOf(s, t) ==
    \E i \in 1..(Len(s) + 1), j \in 0..Len(s) :
        /\ j >= i - 1
        /\ \A k \in 1..(i - 1) : s[k] = " "
        /\ \A k \in (j + 1)..Len(s) : s[k] = " "
        /\ i <= j => (s[i] # " " /\ s[j] # " ")
        /\ Len(t) = j - i + 1
        /\ \A k \in 1..Len(t) : UpperOf(s[i + k - 1], t[k])

\* t is bare or bare + suffix, bare the trimmed upper-case form of s and
\* suffix an entry of the fixed list
InClosedSet(s, t) ==
    \E k \in 1..Len(EXCHANGE_SUFFIXES) :
        LET sfx == EXCHANGE_SUFFIXES[k]
            n   == Len(t) - Len(sfx)
        IN  /\ n >= 0
            /\ SubSeq(t, n + 1, Len(t)) = sfx
            /\ TrimUpperOf(s, SubSeq(t, 1, n))

\* C1: analyze_stock_for_web called with an empty or all-whitespace raw ticker
\* fails with the empty-input error, and no Gateway call is ever made
C1_BlankTickerFailsBeforeAnyCall ==
    (entry = "analyze_stock_for_web" /\ AllBlank(arg)) =>
        /\ calls = <<>>
        /\ pc = "done" => error = Some("ValueError: Ticker kosong")

\* C2: when the argument of normalize_ticker contains a '.', the value
\* returned is the argument trimmed and upper-cased, and no validation lookup
\* is made
C2_DottedReturnedWithoutValidation ==
    ContainsDot(NormalizeArg) =>
        /\ Validations = <<>>
        /\ norm_ticker # None => TrimUpperOf(NormalizeArg, Val(norm_ticker))

\* a dotted ticker with whitespace and a lower-case letter was normalized
C2_Witness ==
    /\ entry = "normalize_ticker"
    /\ pc = "done"
    /\ raw_ticker = <<"a", ".", " ">>
    /\ norm_ticker = Some(<<"A", ".">>)

\* C3: the validation lookups are made for the bare symbol, then for the bare
\* symbol plus each suffix in list order; only the last lookup made can have
\* succeeded, and its candidate is then the value returned
C3_FirstValidCandidateWins ==
    LET V == Validations
    IN  /\ Len(V) <= Len(EXCHANGE_SUFFIXES)
        /\ \A k \in 1..Len(V) :
            V[k].ticker = (IF k = 1 THEN symbol ELSE symbol \o EXCHANGE_SUFFIXES[k])
        /\ \A k \in 1..(Len(V) - 1) : ~V[k].valid
        /\ (Len(V) > 0 /\ V[Len(V)].valid) => norm_ticker = Some(V[Len(V)].ticker)

\* the third candidate validated after two that did not
C3_Witness ==
    /\ Len(Validations) = 3
    /\ Validations[3].valid
    /\ norm_ticker = Some(<<"A", ".", "N", "S">>)

\* C4: for an argument without '.', the value returned is the upper-cased bare
\* symbol or the bare symbol plus one suffix of the list; when no lookup
\* succeeded it is the bare symbol, each candidate having been tried once
C4_ResultInClosedSet ==
    (norm_ticker # None /\ ~ContainsDot(NormalizeArg)) =>
        /\ InClosedSet(NormalizeArg, Val(norm_ticker))
        /\ (\A k \in 1..Len(Validations) : ~Validations[k].valid) =>
            /\ TrimUpperOf(NormalizeArg, Val(norm_ticker))
            /\ Val(norm_ticker) # <<>> => Len(Validations) = Len(EXCHANGE_SUFFIXES)

\* every candidate failed and the bare symbol came back
C4_Witness ==
    /\ entry = "normalize_ticker"
    /\ pc = "done"
    /\ raw_ticker = <<" ", "a", "B">>
    /\ Len(Validations) = Len(EXCHANGE_SUFFIXES)
    /\ \A k \in 1..Len(Validations) : ~Validations[k].valid
    /\ norm_ticker = Some(<<"A", "B">>)

\* a validation lookup that failed: it raised, or gave no info, or an info
\* dict with neither price
FailedLookup(a) ==
    \/ a.kind \in {"raise", "none"}
    \/ a.kind = "info" /\ a.currentPrice = None /\ a.regularMarketPrice = None

\* C5: normalize_ticker raises nothing; after a failed validation lookup the
\* candidate is logged as not valid and the search is at the next candidate,
\* or, the list exhausted, the bare symbol is returned
C5_LookupFailureIsNotValid ==
    /\ (entry = "normalize_ticker" \/ pc \in {"validate_bare", "suffix_loop"}) => error = None
    /\ FailedLookup(last_lookup) =>
        LET V == Validations
        IN  /\ error = None
            /\ ~V[Len(V)].valid
            /\ norm_ticker = None =>
                /\ pc = "suffix_loop"
                /\ sfx_i \in {Len(V), Len(V) + 1}
            /\ norm_ticker # None =>
                /\ Len(V) = Len(EXCHANGE_SUFFIXES)
                /\ norm_ticker = Some(symbol)

\* a lookup raised for the second candidate and the search went on
C5_Witness ==
    /\ pc = "suffix_loop"
    /\ last_lookup.kind = "raise"
    /\ Len(Validations) = 2
    /\ sfx_i = 3
    /\ error = None

\* r is None when x or y is absent or y is zero, and otherwise the finite
\* number x / y
GuardedQuotient(r, x, y) ==
    IF x = None \/ y = None
    THEN r = None
    ELSE IF Val(y).n = 0
    THEN r = None
    ELSE /\ r # None
         /\ ~IsException(r)
         /\ Val(r).d # 0
         /\ Val(r).n * Val(y).n * Val(x).d = Val(x).n * Val(y).d * Val(r).d

\* the most recent column of the balance sheet, None for a line item that is
\* absent or a statement that is unavailable
SheetItem(bs, item) ==
    IF bs.kind = "frame" /\ bs.columns > 0 THEN bs[item] ELSE None

\* C6: compute_ratios raises for no combination of present, absent and zero
\* inputs; PER, PBV and DER are None when an operand is absent or the
\* denominator is zero and the exact quotient otherwise; no ratio is infinite
C6_RatiosGuarded ==
    (entry = "compute_ratios" /\ pc = "done") =>
        /\ error = None
        /\ ratios # None
        /\ LET r  == Val(ratios)
               bs == Val(balance_sheet)
           IN  /\ GuardedQuotient(r.PER, Val(info).currentPrice, Val(stock_info).trailingEps)
               /\ GuardedQuotient(r.PBV, Val(info).currentPrice, Val(stock_info).bookValue)
               /\ GuardedQuotient(r.DER, SheetItem(bs, "TotalDebt"),
                                  SheetItem(bs, "TotalStockholderEquity"))
               /\ \A k \in RatioNames : r[k] # None => Val(r[k]).d # 0

\* a zero EPS left PER undefined while PBV and DER were computed, DER from a
\* zero debt
C6_Witness ==
    /\ entry = "compute_ratios"
    /\ pc = "done"
    /\ Val(stock_info).trailingEps = Num(0)
    /\ Val(ratios).PER = None
    /\ Val(ratios).PBV = Some([n |-> 2, d |-> 1])
    /\ Val(balance_sheet) = BalanceSheet(1, Num(0), Num(2))
    /\ Val(ratios).DER = Some([n |-> 0, d |-> 1])

\* the info lookup of analyze_stock_for_web was answered with an info dict
InfoLookupSucceeded == entry \in {"analyze_stock_for_web", "api_analyze"} /\ stock_info # None

\* C7: once the info lookup has succeeded, whatever fields the info dict and
\* the statements lack, analyze_stock_for_web raises nothing and returns a
\* result whose fields are None where their inputs are absent
C7_MissingFieldsNeverRaise ==
    InfoLookupSucceeded =>
        /\ error = None
        /\ pc = "done" =>
            /\ result # None
            /\ LET r  == Val(result)
                   d  == Val(stock_info)
                   bs == Val(balance_sheet)
               IN  /\ (d.longName = None /\ d.shortName = None) => r.name = None
                   /\ d.sector = None => r.sector = None
                   /\ d.industry = None => r.industry = None
                   /\ d.currency = None => r.currency = None
                   /\ d.trailingEps = None => (r.ratios.PER = None /\ r.ratios.PER_str = None)
                   /\ d.bookValue = None => (r.ratios.PBV = None /\ r.ratios.PBV_str = None)
                   /\ d.returnOnEquity = None =>
                        (r.ratios.ROE = None /\ r.ratios.ROE_str = None)
                   /\ d.dividendYield = None =>
                        (r.ratios.DividendYield = None /\ r.ratios.DividendYield_str = None)
                   /\ (SheetItem(bs, "TotalDebt") = None
                        \/ SheetItem(bs, "TotalStockholderEquity") = None) =>
                        (r.ratios.DER = None /\ r.ratios.DER_str = None)
                   /\ (Val(financials).kind = "frame" /\ Val(financials).NetIncome = None) =>
                        (r.growth_list = <<>> /\ r.growth_cagr_str = None)

\* a result was returned for a dotted ticker from an empty info dict and
\* statements without the line items
C7_Witness ==
    /\ entry = "analyze_stock_for_web"
    /\ pc = "done"
    /\ arg = <<"a", ".", "B">>
    /\ stock_info = Some([f \in InfoFields |-> None])
    /\ Val(balance_sheet) = BalanceSheet(4, None, None)
    /\ Val(financials) = IncomeStatement(None)
    /\ result # None
    /\ Val(result).ratios.PER = None
    /\ Val(result).name = None

\* the strings that show a zero amount
ZeroAmounts == {"$0", "Rp 0"}

\* C8: in the result of analyze_stock_for_web the string of an absent price,
\* market capitalization or number of shares is never a zero amount, whatever
\* the currency
C8_AbsentNeverShownAsZero ==
    result # None =>
        LET r == Val(result)
            d == Val(info)
        IN  /\ d.currentPrice = None => r.price_str \notin ZeroAmounts
            /\ d.marketCap = None => r.market_cap_str \notin ZeroAmounts
            /\ d.sharesOutstanding = None => r.shares_out_str \notin ZeroAmounts

\* the lookup named `by` was made and raised
LookupRaised(by) == \E k \in 1..Len(calls) : calls[k].by = by /\ calls[k].raised

\* the info lookup was made and raised, or gave no info dict
InfoFailed ==
    \/ LookupRaised("get_basic_info")
    \/ (\E k \in 1..Len(calls) : calls[k].by = "get_basic_info") /\ stock_info = None

\* the request was aborted with a single error and no result
Aborted ==
    /\ pc = "done"
    /\ error # None
    /\ result = None
    /\ entry = "api_analyze" => response = Some([status |-> 500, error |-> "failed to analyze"])

\* C9 as stated: a failed acquisition of the info dict, the balance sheet or
\* the income statement aborts the request
C9_AnyAcquisitionFailureAborts ==
    (InfoFailed \/ LookupRaised("balance_sheet") \/ LookupRaised("financials")) =>
        /\ result = None
        /\ pc = "done" => Aborted

\* C9 amended: a failed acquisition of the info dict aborts the request at
\* once, with no ratios computed and no further lookup; a failed acquisition
\* of a statement does not: no error is raised and the result returned has
\* DER, respectively the growth list and CAGR, undefined
C9_InfoFailureAborts ==
    /\ InfoFailed =>
        /\ Aborted
        /\ calls[Len(calls)].by = "get_basic_info"
        /\ ratios = None
    /\ (InfoLookupSucceeded /\ (LookupRaised("balance_sheet") \/ LookupRaised("financials"))) =>
        /\ error = None
        /\ pc = "done" =>
            /\ result # None
            /\ LookupRaised("balance_sheet") => Val(result).ratios.DER = None
            /\ LookupRaised("financials") =>
                (Val(result).growth_list = <<>> /\ Val(result).growth_cagr_str = None)

\* the info lookup raised behind /api/analyze and the response is the
\* "failed to analyze" one
C9_Witness ==
    /\ entry = "api_analyze"
    /\ LookupRaised("get_basic_info")
    /\ Aborted

\* C10: get_growth raises nothing; without a "Net Income" row the result is
\* None; with a row of fewer than 2 periods the CAGR is None and the values
\* returned hold every period of the row
C10_FewPeriods ==
    (entry = "get_growth" /\ pc = "done") =>
        /\ error = None
        /\ LET fin == Val(financials)
           IN  /\ fin.kind = "frame" =>
                /\ fin.NetIncome = None => growth_raw = None
                /\ (fin.NetIncome # None /\ Len(Val(fin.NetIncome)) < 2) =>
                    /\ growth_raw # None
                    /\ Val(growth_raw).NetIncomeCAGR = None
                    /\ Len(Val(growth_raw).NetIncomeValues) = Len(Val(fin.NetIncome))
                    /\ \A k \in 1..Len(Val(fin.NetIncome)) :
                        \E m \in 1..Len(Val(growth_raw).NetIncomeValues) :
                            Val(growth_raw).NetIncomeValues[m] = Val(fin.NetIncome)[k]

\* a row of a single period came back as a one-element list without a CAGR
C10_Witness ==
    /\ entry = "get_growth"
    /\ pc = "done"
    /\ Val(financials) = IncomeStatement(Some(<< <<2022, FromInt(121)>> >>))
    /\ growth_raw = Some([NetIncomeValues |-> << <<2022, FromInt(121)>> >>,
                          NetIncomeCAGR   |-> None])

----------------------------------------------------------------------------
(* Properties of the formatters.  What a formatter must print is computed   *)
(* here from the thresholds and by rounding the quotient, apart from the    *)
(* digit groups the model of the formatters works on.                       *)

\* the formatter named `f` was called on its own and has returned
Returned(f) == entry = f /\ pc = "done"

\* x is a number other than NaN
IsNumber(x) == x # None /\ ~IsText(x) /\ ~IsNaN(Val(x))

\* x is a string float() does not accept
NonNumeric(x) == IsText(x) /\ IsException(float(x))

\* C11: format_rp_short returns the zero string "Rp 0", the one it returns
\* for 0, for None and for every input that is no number
C11_NullAndNonNumericFormatAsZero ==
    (Returned("format_rp_short") /\ (fmt_x = None \/ NonNumeric(fmt_x))) =>
        /\ fmt_out = Some("Rp 0")
        /\ fmt_out = Some(format_rp_short(Num(0)))

RECURSIVE Pow1000(_)
Pow1000(k) == IF k = 0 THEN 1 ELSE 1000 * Pow1000(k - 1)

\* n * 1000^j >= d, for n >= 0
RECURSIVE ReachesWithin(_, _, _)
ReachesWithin(n, d, j) ==
    IF n >= d THEN TRUE
    ELSE IF j = 0 THEN FALSE
    ELSE ReachesWithin(n * 1000, d, j - 1)

\* |x| >= 1000^b; the integer part of n/d is below 1000^4
AtLeast(q, b) ==
    LET k == b - E3(q)
    IN  IF k <= 0 THEN ReachesWithin(Abs(q.n), q.d, -k)
        ELSE IF k >= 4 THEN FALSE
        ELSE Abs(q.n) \div q.d >= Pow1000(k)

\* the largest of the thresholds 1e3, 1e6, 1e9, 1e12 that is <= |x|, as its
\* power of 1000; 0 when |x| < 1e3
ThresholdBand(q) ==
    CHOOSE b \in 0..4 : /\ b = 0 \/ AtLeast(q, b)
                        /\ b = 4 \/ ~AtLeast(q, b + 1)

RoundHalfEven(num, den) ==
    LET whole == num \div den
        r     == num % den
    IN  whole + (IF 2 * r > den \/ (2 * r = den /\ whole % 2 = 1) THEN 1 ELSE 0)

\* |x| / 1000^b in hundredths, rounded; x carries at most the power b
Hundredths(q, b) ==
    LET k == b - E3(q)
    IN  IF k = 0 THEN RoundHalfEven(Abs(q.n) * 100, q.d)
        ELSE RoundHalfEven(Abs(q.n), q.d * 10 * Pow1000(k - 1))

\* |x| / 1000^b with two decimals
TwoDecimals(q, b) ==
    LET c == Hundredths(q, b)
    IN  ToString(c \div 100) \o "." \o Pad2(c % 100)

\* |x| < 1e3 with two decimals and with none, the thousands separated
TwoDecimalsGrouped(q) ==
    LET c == Hundredths(q, 0)
    IN  IF c = 100000 THEN "1,000.00" ELSE ToString(c \div 100) \o "." \o Pad2(c % 100)

NoDecimalsGrouped(q) ==
    LET i == RoundHalfEven(Abs(q.n), q.d)
    IN  IF i = 1000 THEN "1,000" ELSE ToString(i)

SuffixOf(b) == IF b = 0 THEN "" ELSE <<"K", "M", "B", "T">>[b]

Minus(q) == IF q.n < 0 THEN "-" ELSE ""

\* what format_usd_short prints for the magnitude |x|
UsdMagnitude(q) ==
    LET b == ThresholdBand(q)
    IN  "$" \o (IF b = 0 THEN TwoDecimalsGrouped(q) ELSE TwoDecimals(q, b)) \o SuffixOf(b)

\* C12: format_usd_short prints "-" for a negative x and then what it prints
\* for -x: "$", the digits and the suffix of the magnitude
C12_SignApartFromMagnitude ==
    (Returned("format_usd_short") /\ IsNumber(fmt_x)) =>
        LET q == Val(fmt_x)
        IN  /\ q.n < 0 => fmt_out = Some("-" \o format_usd_short(Some(Negated(q))))
            /\ fmt_out = Some(Minus(q) \o UsdMagnitude(q))
            /\ q = Scaled(-5, 2, 3) => fmt_out = Some("-$2.50B")

\* -2_500_000_000 was formatted
C12_Witness ==
    /\ Returned("format_usd_short")
    /\ fmt_x = Some(Scaled(-5, 2, 3))
    /\ fmt_out = Some("-$2.50B")

\* x / rate
Converted(q, rate) ==
    LET f == Frac(q.n * rate.d, q.d * rate.n)
    IN  Some(Scaled(f.n, f.d, E3(q)))

\* C13: format_idr_with_usd returns format_rp_short(x) when the rate is None
\* or zero or x is no number, and format_rp_short(x), " (",
\* format_usd_short(x / rate), ")" when the rate is there and x is a number
C13_SideConversionIsBestEffort ==
    Returned("format_idr_with_usd") =>
        /\ fmt_out # None
        /\ ~IsException(fmt_out)
        /\ (fmt_rate = None \/ fmt_rate = Num(0)) => fmt_out = Some(format_rp_short(fmt_x))
        /\ (fmt_x = None \/ NonNumeric(fmt_x)) => fmt_out = Some(format_rp_short(fmt_x))
        /\ (fmt_rate # None /\ fmt_rate # Num(0) /\ IsNumber(fmt_x)) =>
             fmt_out = Some(format_rp_short(fmt_x) \o " ("
                            \o format_usd_short(Converted(Val(fmt_x), Val(fmt_rate))) \o ")")

\* 1.5e12 rupiah were shown with their value in dollars
C13_Witness ==
    /\ Returned("format_idr_with_usd")
    /\ fmt_x = Some(Scaled(3, 2, 4))
    /\ fmt_rate = Num(15820)
    /\ fmt_out = Some("Rp 1.50T ($94.82M)")

----------------------------------------------------------------------------
(* Properties of the formatting part of analyze_stock_for_web *)

\* the FX lookups of the call log
FxLookups == SelectSeq(calls, LAMBDA c : c.by = "get_usd_idr_rate")

\* the rates get_usd_idr_rate can return
FxRates == {get_usd_idr_rate(a) : a \in FxAnswers}

\* the amounts of the result: price, market cap, shares, and the net income
\* of each period, each with the string the result shows for it
ShownAmounts ==
    LET r  == Val(result)
        ni == IF growth_raw = None THEN <<>> ELSE Val(growth_raw).NetIncomeValues
    IN  {<<Val(info).currentPrice, r.price_str>>,
         <<Val(info).marketCap, r.market_cap_str>>,
         <<Val(info).sharesOutstanding, r.shares_out_str>>}
        \cup {<<Some(ni[k][2]), r.growth_list[k].value_str>> : k \in 1..Len(ni)}

\* C14: the amounts of one result are all formatted by the formatter of the
\* instrument's currency, IDR with one and the same rate; the FX rate is
\* looked up at most once, and only for IDR
C14_FormatterByCurrencyAlone ==
    /\ Len(FxLookups) <= 1
    /\ Len(FxLookups) = 1 => (info # None /\ Val(info).currency = Some("IDR"))
    /\ result # None =>
        LET curr == Val(info).currency
        IN  /\ Len(Val(result).growth_list)
                = (IF growth_raw = None THEN 0 ELSE Len(Val(growth_raw).NetIncomeValues))
            /\ curr = Some("IDR") =>
                /\ Len(FxLookups) = 1
                /\ \E rate \in FxRates :
                    \A a \in ShownAmounts : a[2] = format_idr_with_usd(a[1], rate)
            /\ curr = Some("USD") =>
                \A a \in ShownAmounts : a[2] = format_usd_short(a[1])
            /\ curr \notin {Some("IDR"), Some("USD")} =>
                \A a \in ShownAmounts : a[2] = PyStr(a[1]) \o " " \o CurrStr(curr)

\* an IDR instrument with two periods of net income was formatted with the
\* rate of the single FX lookup
C14_Witness ==
    /\ result # None
    /\ Val(info).currency = Some("IDR")
    /\ Len(FxLookups) = 1
    /\ ~FxLookups[1].raised
    /\ Len(Val(result).growth_list) = 2
    /\ Val(result).price_str = "Rp 150 ($0.01)"
    /\ Val(result).growth_list[1].value_str = "Rp 1.00M ($63.21)"

----------------------------------------------------------------------------
(* Properties of compute_ratios and get_growth, continued *)

\* the info field each ratio other than DER fails on when it is absent
RatioField ==
    [PER |-> "trailingEps", PBV |-> "bookValue", ROE |-> "returnOnEquity",
     DividendYield |-> "dividendYield"]

\* the ratios r and t agree on every ratio but `name`
SameButFor(r, t, name) == \A k \in RatioNames \ {name} : r[k] = t[k]

Earliest(row) == CHOOSE c \in {row[i] : i \in 1..Len(row)} :
                    \A i \in 1..Len(row) : c[1] <= row[i][1]
Latest(row) == CHOOSE c \in {row[i] : i \in 1..Len(row)} :
                    \A i \in 1..Len(row) : c[1] >= row[i][1]

\* C16: whatever the order of the periods in the income statement, get_growth
\* returns the same (period, net income) pairs in ascending order of period;
\* with two periods or more the CAGR is None when the earliest net income is
\* zero and otherwise is computed from the earliest value as base, the latest
\* as end value and one interval less than there are periods
C16_ChronologicalGrowth ==
    (entry = "get_growth" /\ pc = "done" /\ Val(financials).kind = "frame"
        /\ Val(financials).NetIncome # None) =>
        LET row == Val(Val(financials).NetIncome)
        IN  /\ growth_raw # None
            /\ LET values == Val(growth_raw).NetIncomeValues
                   cagr   == Val(growth_raw).NetIncomeCAGR
               IN  /\ Len(values) = Len(row)
                   /\ {values[i] : i \in 1..Len(values)} = {row[i] : i \in 1..Len(row)}
                   /\ \A i, j \in 1..Len(values) : i < j => values[i][1] < values[j][1]
                   /\ Len(row) < 2 => cagr = None
                   /\ (Len(row) >= 2 /\ Earliest(row)[2].n = 0) => cagr = None
                   /\ (Len(row) >= 2 /\ Earliest(row)[2].n # 0) =>
                        cagr = Some([first |-> Earliest(row)[2],
                                     last  |-> Latest(row)[2],
                                     years |-> Len(row) - 1])

\* three periods came latest first and were returned earliest first, the
\* CAGR taken from 2021 to 2023 over two intervals
C16_Witness ==
    /\ entry = "get_growth"
    /\ pc = "done"
    /\ Val(financials) = IncomeStatement(Some(<< <<2023, FromInt(121)>>, <<2022, FromInt(0)>>,
                                                  <<2021, FromInt(100)>> >>))
    /\ growth_raw = Some([NetIncomeValues |-> << <<2021, FromInt(100)>>, <<2022, FromInt(0)>>,
                                                  <<2023, FromInt(121)>> >>,
                          NetIncomeCAGR   |-> Some([first |-> FromInt(100),
                                                    last  |-> FromInt(121),
                                                    years |-> 2])])

----------------------------------------------------------------------------
(* Properties of the formatters, continued *)

\* C17 as stated: both formatters print the suffix of the largest threshold
\* that is <= |x| and x divided by that threshold with two decimals, also
\* when |x| < 1e3
C17_TwoDecimalsInEveryBand ==
    IsNumber(fmt_x) =>
        LET q == Val(fmt_x)
            b == ThresholdBand(q)
            digits == IF b = 0 THEN TwoDecimalsGrouped(q) ELSE TwoDecimals(q, b)
        IN  /\ Returned("format_rp_short") =>
                fmt_out = Some("Rp " \o Minus(q) \o digits \o SuffixOf(b))
            /\ Returned("format_usd_short") =>
                fmt_out = Some(Minus(q) \o "$" \o digits \o SuffixOf(b))

\* C17 amended: both formatters print the suffix of the largest threshold
\* that is <= |x|, a threshold included in its band; with a suffix the number
\* is x divided by the threshold with two decimals; without one
\* format_usd_short prints x with two decimals and format_rp_short prints x
\* rounded to a whole number
C17_ThresholdBands ==
    IsNumber(fmt_x) =>
        LET q == Val(fmt_x)
            b == ThresholdBand(q)
        IN  /\ Returned("format_rp_short") =>
                fmt_out = Some("Rp " \o Minus(q)
                               \o (IF b = 0 THEN NoDecimalsGrouped(q) ELSE TwoDecimals(q, b))
                               \o SuffixOf(b))
            /\ Returned("format_usd_short") =>
                fmt_out = Some(Minus(q) \o "$"
                               \o (IF b = 0 THEN TwoDecimalsGrouped(q) ELSE TwoDecimals(q, b))
                               \o SuffixOf(b))
            /\ (Returned("format_rp_short") /\ q = FromInt(1000)) => fmt_out = Some("Rp 1.00K")
            /\ (Returned("format_usd_short") /\ q = Scaled(1, 1, 4)) => fmt_out = Some("$1.00T")

\* 999 rupiah were printed without decimals
C17_Witness ==
    /\ Returned("format_rp_short")
    /\ fmt_x = Num(999)
    /\ fmt_out = Some("Rp 999")

----------------------------------------------------------------------------
(* app.py: the password-reset flow.  A row of table `users` is kept under   *)
(* its username; a token is the number of the forgot-password request that  *)
(* issued it, uuid4 giving a new value each time; the clock moves on with   *)
(* every request served.                                                    *)

\* most requests served (init_db at a start of the application included)
MaxRequests == 4

AdminEmail == "admin@example.com"
UserEmail == "budi@example.com"

\* generate_password_hash
generate_password_hash(password) == <<"hash", password>>

\* the rows the flow starts from: the admin account init_db creates and a
\* registered user, no reset pending
RegisteredUsers ==
    [u \in {"admin", "budi"} |->
        [email         |-> IF u = "admin" THEN AdminEmail ELSE UserEmail,
         password_hash |-> generate_password_hash(IF u = "admin" THEN "asdfghjkl" ELSE "p0"),
         reset_token   |-> None,
         reset_expires |-> None]]

\* SELECT * FROM users WHERE email = ?  (fetchone; email is UNIQUE)
select_by_email(rows, email) == {u \in DOMAIN rows : rows[u].email = email}

\* SELECT * FROM users WHERE reset_token = ?  (NULL matches nothing)
select_by_reset_token(rows, token) == {u \in DOMAIN rows : rows[u].reset_token = Some(token)}

\* lines 380-384: UPDATE users SET reset_token = ?, reset_expires = ?
forgot_update(row, token, expires) ==
    [row EXCEPT !.reset_token = Some(token), !.reset_expires = Some(expires)]

\* faulty variant of reset_update: the token is left in the row
reset_update_KeepsToken(row, password_hash) ==
    [row EXCEPT !.password_hash = password_hash]

\* lines 427-431: UPDATE users SET password_hash = ?, reset_token = NULL,
\* reset_expires = NULL
reset_update(row, password_hash) ==
    [row EXCEPT !.password_hash = password_hash, !.reset_token = None, !.reset_expires = None]

\* lines 124-135: init_db resets the admin account
admin_update(row) ==
    [row EXCEPT !.email = AdminEmail,
                !.password_hash = generate_password_hash("asdfghjkl"),
                !.reset_token = None,
                !.reset_expires = None]

\* the tokens issued so far
Issued == {requests[k].token : k \in {i \in 1..Len(requests) : requests[i].route = "forgot_password"
                                                                /\ requests[i].token > 0}}

\* str(uuid.uuid4()): a token never issued before
uuid4 == Cardinality(Issued) + 1

InitReset ==
    /\ entry = "app"
    /\ pc = entry
    /\ arg = <<>>
    /\ raw_ticker = <<>>
    /\ stock_info = None
    /\ info = None
    /\ Fresh
    /\ NoFormatting
    /\ users = RegisteredUsers
    /\ now = 0
    /\ requests = <<>>

\* a request is served: it is logged with the message it flashed, and time
\* has passed when the next one comes
Served(request) ==
    /\ Len(requests) < MaxRequests
    /\ requests' = Append(requests, request)
    /\ now' = now + 1
    /\ UNCHANGED <<pc, entry, arg, raw_ticker, input_ticker, symbol, sfx_i, norm_ticker,
                   last_lookup, calls, stock_info, balance_sheet, financials, info, ratios,
                   growth_raw, result, error, response, formatting>>

\* the application starts: init_db
InitDb ==
    /\ pc = "app"
    /\ users' = [users EXCEPT !["admin"] = admin_update(users["admin"])]
    /\ Served([route |-> "init_db", token |-> 0, user |-> "admin", at |-> now, flash |-> ""])

\* POST /forgot-password
ForgotPassword ==
    /\ pc = "app"
    /\ \E email \in {"", "nobody@example.com", AdminEmail, UserEmail} :
        LET found == select_by_email(users, email)
        IN  IF email = ""
            THEN /\ Served([route |-> "forgot_password", token |-> 0, user |-> "", at |-> now,
                            flash |-> "Email wajib diisi."])
                 /\ UNCHANGED users
            ELSE IF found = {}
            THEN /\ Served([route |-> "forgot_password", token |-> 0, user |-> "", at |-> now,
                            flash |-> "Email tidak terdaftar."])
                 /\ UNCHANGED users
            ELSE LET user  == CHOOSE u \in found : TRUE
                     token == uuid4
                 IN  /\ users' = [users EXCEPT ![user] = forgot_update(users[user], token, now)]
                     /\ Served([route |-> "forgot_password", token |-> token, user |-> user,
                                at |-> now,
                                flash |-> "Link reset password sudah dikirim ke email (dan dicetak di terminal)."])

\* the forms posted to /reset/<token>: no password, two that differ, a new
\* password typed twice
ResetForms ==
    {[password |-> "", confirm |-> ""], [password |-> "p1", confirm |-> "p2"],
     [password |-> "p1", confirm |-> "p1"]}

\* GET or POST /reset/<token>, for an issued token or one never issued
ResetPassword ==
    /\ pc = "app"
    /\ \E token \in 1..(Cardinality(Issued) + 1), method \in {"GET", "POST"}, form \in ResetForms :
        LET found == select_by_reset_token(users, token)
            entryOf(user, flash) == [route |-> "reset_password", token |-> token, user |-> user,
                                     at |-> now, flash |-> flash]
        IN  /\ method = "GET" => form = [password |-> "", confirm |-> ""]
            /\ IF found = {}
               THEN /\ Served(entryOf("", "Token reset tidak valid."))
                    /\ UNCHANGED users
               ELSE LET user == CHOOSE u \in found : TRUE
                    IN  IF method = "GET"
                        THEN /\ Served(entryOf(user, ""))
                             /\ UNCHANGED users
                        ELSE IF form.password = "" \/ form.password # form.confirm
                        THEN /\ Served(entryOf(user, "Password kosong atau tidak sama."))
                             /\ UNCHANGED users
                        ELSE /\ users' = [users EXCEPT ![user] =
                                            reset_update(users[user],
                                                         generate_password_hash(form.password))]
                             /\ Served(entryOf(user, "Password berhasil direset. Silakan login."))

NextReset ==
    \/ InitDb
    \/ ForgotPassword
    \/ ResetPassword

SpecReset == InitReset /\ [][NextReset]_vars

----------------------------------------------------------------------------
(* Properties of the password-reset flow, stated on the log of requests *)

\* request k is a reset-password request
IsReset(k) == requests[k].route = "reset_password"

\* request k issued a token
IsIssue(k) == requests[k].route = "forgot_password" /\ requests[k].token > 0

\* request k changed a password
Changed(k) == IsReset(k) /\ requests[k].flash = "Password berhasil direset. Silakan login."

\* request k was turned down for its token
Invalid(k) == IsReset(k) /\ requests[k].flash = "Token reset tidak valid."

\* request j consumed the token request i issued, or issued another one to
\* the same user
ConsumedOrOverwritten(i, j) ==
    \/ Changed(j) /\ requests[j].token = requests[i].token
    \/ IsIssue(j) /\ requests[j].user = requests[i].user

\* init_db ran as request j and the token request i issued was the admin's
ClearedAtStart(i, j) == requests[j].route = "init_db" /\ requests[i].user = "admin"

\* C18 as stated: a reset request is turned down for its token exactly when
\* the token was never issued or has since been consumed by a successful
\* reset or overwritten by a later forgot-password request of the same user
C18_AcceptedUntilConsumedOrOverwritten ==
    (entry = "app") =>
        \A k \in 1..Len(requests) :
            IsReset(k) =>
                (Invalid(k) <=>
                    ~\E i \in 1..(k - 1) :
                        /\ IsIssue(i)
                        /\ requests[i].token = requests[k].token
                        /\ \A j \in (i + 1)..(k - 1) : ~ConsumedOrOverwritten(i, j))

\* C18 amended: a reset request is turned down for its token exactly when the
\* token was never issued or has since been consumed, overwritten, or, being
\* the admin's, cleared by init_db; the stored expiry, the time of issue, is
\* past at every reset and plays no part; a successful reset stores the new
\* password and no token changes a password twice
C18_AcceptedUntilConsumedOverwrittenOrCleared ==
    (entry = "app") =>
        /\ \A k \in 1..Len(requests) :
            IsReset(k) =>
                /\ Invalid(k) <=>
                    ~\E i \in 1..(k - 1) :
                        /\ IsIssue(i)
                        /\ requests[i].token = requests[k].token
                        /\ requests[i].at < requests[k].at
                        /\ \A j \in (i + 1)..(k - 1) :
                            ~ConsumedOrOverwritten(i, j) /\ ~ClearedAtStart(i, j)
                /\ Changed(k) => \A j \in 1..(k - 1) :
                                    ~(Changed(j) /\ requests[j].token = requests[k].token)
        /\ (Len(requests) > 0 /\ Changed(Len(requests))) =>
            LET row == users[requests[Len(requests)].user]
            IN  /\ row.password_hash = generate_password_hash("p1")
                /\ row.reset_token = None
                /\ row.reset_expires = None

\* a token was issued, survived a forgot-password request of the other user,
\* changed the password two requests later and was then turned down
C18_Witness ==
    /\ entry = "app"
    /\ Len(requests) = 4
    /\ IsIssue(1) /\ requests[1].user = "budi"
    /\ IsIssue(2) /\ requests[2].user = "admin"
    /\ Changed(3) /\ requests[3].token = requests[1].token /\ requests[3].at > requests[1].at + 1
    /\ Invalid(4) /\ requests[4].token = requests[1].token
    /\ users["budi"].password_hash = generate_password_hash("p1")

====
